---------------------------- MODULE Spec2Model ----------------------------
(***************************************************************************)
(* cipher__BitcoinAddress (include/cipher.bitcoin.go.h): a plain C struct  *)
(*                                                                         *)
(*     typedef struct {                                                    *)
(*       unsigned char Version;                                            *)
(*       cipher__Ripemd160 Key;                                            *)
(*     } cipher__BitcoinAddress;                                           *)
(*                                                                         *)
(* The header declares data only.  What it fixes is the object             *)
(* representation of a record (which bytes exist, in which order, with     *)
(* which value range) and, through the C language, the operations a        *)
(* program has on such an object: initialisation, member read, member      *)
(* write, assignment by value.  The model keeps a record as its object     *)
(* representation (a sequence of bytes laid out from the declaration) and  *)
(* lets every operation go through the layout, so that a statement about   *)
(* fields is a statement about the declaration.                            *)
(*                                                                         *)
(* Two records live in the model: a (the record that is constructed) and   *)
(* b (a second variable that receives a by value and is then written).     *)
(* given and givenB are history variables: the field values the program    *)
(* handed to the constructor, resp. assigned to b, as plain values.        *)
(***************************************************************************)
EXTENDS Integers, Sequences, FiniteSets, TLC

VARIABLES status, given, a, b, bstate, givenB, writes,
          lastVersion, lastKey, payload, eqResult,
          pc, buf, scribbled

vars == <<status, given, a, b, bstate, givenB, writes,
          lastVersion, lastKey, payload, eqResult, pc, buf, scribbled>>

---------------------------------------------------------------------------
(* Bounds of the model *)

\* writes made to the copy b in one behaviour
MaxWrites == 2
\* concurrent readers of the record a
NumReaders == 2

---------------------------------------------------------------------------
(* The types of the two members *)

\* largest value of an unsigned char (8 bits)
UCharMax == 255

\* a faulty variant of UCharValues: a 7-bit version field
UCharValues7Bit == 0 .. 127

\* the values of `unsigned char Version`
UCharValues == 0 .. UCharMax

\* conversion of an integer to a signed char (two's complement); a faulty
\* variant of ToUChar: the member declared `char` on a platform where char is signed
ToSChar(x) ==
    LET m == x % (UCharMax + 1)
    IN  IF m > UCharMax \div 2 THEN m - (UCharMax + 1) ELSE m

\* conversion of an integer to unsigned char, as an initialiser or an
\* assignment to Version performs it
ToUChar(x) == x % (UCharMax + 1)

\* number of bytes of a cipher__Ripemd160 value (a 160-bit digest)
Ripemd160Len == 20

\* h is a cipher__Ripemd160 value: Ripemd160Len bytes
IsRipemd160(h) ==
    /\ DOMAIN h = 1 .. Ripemd160Len
    /\ \A i \in 1 .. Ripemd160Len : h[i] \in 0 .. UCharMax

---------------------------------------------------------------------------
(* The layout of the struct, computed from its declaration *)

\* a faulty variant of Fields: the members declared in the other order
FieldsKeyFirst == <<"Key", "Version">>

\* the members in declaration order
Fields == <<"Version", "Key">>

\* a faulty variant of FieldSize: Version declared as a two-byte integer
FieldSizeWideVersion(f) == IF f = "Version" THEN 2 ELSE Ripemd160Len

\* sizeof of a member's type
FieldSize(f) == IF f = "Version" THEN 1 ELSE Ripemd160Len

\* alignment of a cipher__Ripemd160 value: an array of bytes
Ripemd160Align == 1

\* a faulty variant of AlignOf: the digest stored as 32-bit words
AlignOfWordKey(f) == IF f = "Key" THEN 4 ELSE 1

\* alignment of a member's type: unsigned char is aligned to 1
AlignOf(f) == IF f = "Version" THEN 1 ELSE Ripemd160Align

AlignUp(n, al) == ((n + al - 1) \div al) * al

IndexOf(f) == CHOOSE i \in 1 .. Len(Fields) : Fields[i] = f

\* offset of the i-th declared member: the end of the member before it,
\* rounded up to the member's alignment
RECURSIVE OffsetAt(_)
OffsetAt(i) ==
    IF i = 1 THEN 0
    ELSE AlignUp(OffsetAt(i - 1) + FieldSize(Fields[i - 1]), AlignOf(Fields[i]))

\* offsetof(cipher__BitcoinAddress, f)
Offset(f) == OffsetAt(IndexOf(f))

RECURSIVE MaxAlignUpTo(_)
MaxAlignUpTo(i) ==
    IF i = 0 THEN 1
    ELSE LET m == MaxAlignUpTo(i - 1)
             x == AlignOf(Fields[i])
         IN  IF x > m THEN x ELSE m

\* a faulty variant of SizeofAddress: one more byte of storage behind the two
\* members (a hidden flag or checksum byte)
SizeofWithHiddenByte ==
    AlignUp(OffsetAt(Len(Fields)) + FieldSize(Fields[Len(Fields)]),
            MaxAlignUpTo(Len(Fields))) + 1

\* sizeof(cipher__BitcoinAddress)
SizeofAddress ==
    AlignUp(OffsetAt(Len(Fields)) + FieldSize(Fields[Len(Fields)]),
            MaxAlignUpTo(Len(Fields)))

\* the byte positions (1-based) of member f in the object representation
FieldBytes(f) == (Offset(f) + 1) .. (Offset(f) + FieldSize(f))

\* the byte positions that belong to no member (padding)
PaddingBytes ==
    {o \in 1 .. SizeofAddress : \A i \in 1 .. Len(Fields) : o \notin FieldBytes(Fields[i])}

\* the values a padding byte may take (unspecified in C; two of them)
PadValues == {0, UCharMax}

\* the content of a byte that was never written (no value of a byte)
Indeterminate == 0 - 1

\* storage that has not been written
Blank == [o \in 1 .. SizeofAddress |-> Indeterminate]

---------------------------------------------------------------------------
(* The operations C gives on the struct *)

\* cipher__BitcoinAddress r = { v, h }: the object representation after
\* initialisation; pad gives the padding bytes
Construct(v, h, pad) ==
    [o \in 1 .. SizeofAddress |->
        IF o \in FieldBytes("Key") THEN h[o - Offset("Key")]
        ELSE IF o \in FieldBytes("Version") THEN ToUChar(v)
        ELSE pad[o]]

\* r.Version
ReadVersion(r) == r[Offset("Version") + 1]

\* r.Key, as the Ripemd160Len bytes Key[0] .. Key[Ripemd160Len - 1]
ReadKey(r) == [i \in 1 .. Ripemd160Len |-> r[Offset("Key") + i]]

\* the bytes of the record as a consumer reads them from its storage
Payload(r) == [o \in 1 .. SizeofAddress |-> r[o]]

\* a faulty variant of AssignByValue: a move, which clears the source
AssignByMove(src, pad) ==
    <<[o \in 1 .. SizeofAddress |-> 0],
      [o \in 1 .. SizeofAddress |-> IF o \in PaddingBytes THEN pad[o] ELSE src[o]]>>

\* dst = src for two struct objects: <<src afterwards, dst afterwards>>.
\* Every member byte is copied; padding bytes of dst take unspecified values.
AssignByValue(src, pad) ==
    <<src,
      [o \in 1 .. SizeofAddress |-> IF o \in PaddingBytes THEN pad[o] ELSE src[o]]>>

\* a faulty variant of StoreToCopy: Key is a pointer, so a copy shares the digest's
\* storage with the original
StoreToCopyShallow(orig, copy, o, x) ==
    <<IF o \in FieldBytes("Key") THEN [orig EXCEPT ![o] = x] ELSE orig,
      [copy EXCEPT ![o] = x]>>

\* a faulty variant of StoreToCopy: the copy is a reference to the original
StoreToCopyAliased(orig, copy, o, x) ==
    <<[orig EXCEPT ![o] = x], [copy EXCEPT ![o] = x]>>

\* a store of byte x at position o of a copy of orig:
\* <<orig afterwards, copy afterwards>>.  The struct holds its bytes inline,
\* so the copy has storage of its own.
StoreToCopy(orig, copy, o, x) == <<orig, [copy EXCEPT ![o] = x]>>

\* equality of two records, byte for byte over their storage
RecordsEqual(r1, r2) == \A o \in 1 .. SizeofAddress : r1[o] = r2[o]

---------------------------------------------------------------------------
(* Inputs *)

\* 0 and 111 are the main-net and test-net versions, 255 is no network's
SampleVersions == {0, 111, UCharMax}

HashZero == [i \in 1 .. Ripemd160Len |-> 0]
HashSeq  == [i \in 1 .. Ripemd160Len |-> i]
HashHigh == [i \in 1 .. Ripemd160Len |-> UCharMax - Ripemd160Len + i]

SampleHashes == {HashZero, HashSeq, HashHigh}

Readers == 1 .. NumReaders

\* a reader's variable before its read (no value of a byte or of a char)
NoRead == 0 - 999

---------------------------------------------------------------------------
(* The sequential program: construct, read, copy, write the copy, compare *)

Init ==
    /\ status = "none"
    /\ given = [v |-> NoRead, h |-> <<>>]
    /\ a = Blank
    /\ b = Blank
    /\ bstate = "none"
    /\ givenB = [v |-> NoRead, h |-> <<>>]
    /\ writes = 0
    /\ lastVersion = NoRead
    /\ lastKey = <<>>
    /\ payload = <<>>
    /\ eqResult = "none"
    /\ pc = [r \in Readers |-> 0]
    /\ buf = [r \in Readers |-> Blank]
    /\ scribbled = [r \in Readers |-> 0]

\* construction from a version byte and a digest
ConstructOp(v, h) ==
    /\ status = "none"
    /\ v \in UCharValues
    /\ IsRipemd160(h)
    /\ \E pad \in [PaddingBytes -> PadValues] : a' = Construct(v, h, pad)
    /\ status' = "constructed"
    /\ given' = [v |-> v, h |-> h]
    /\ UNCHANGED <<b, bstate, givenB, writes, lastVersion, lastKey, payload,
                   eqResult, pc, buf, scribbled>>

ReadVersionOp ==
    /\ status = "constructed"
    /\ lastVersion' = ReadVersion(a)
    /\ UNCHANGED <<status, given, a, b, bstate, givenB, writes, lastKey,
                   payload, eqResult, pc, buf, scribbled>>

ReadKeyOp ==
    /\ status = "constructed"
    /\ lastKey' = ReadKey(a)
    /\ UNCHANGED <<status, given, a, b, bstate, givenB, writes, lastVersion,
                   payload, eqResult, pc, buf, scribbled>>

\* a consumer reads the record's bytes front to back
ReadPayloadOp ==
    /\ status = "constructed"
    /\ payload' = Payload(a)
    /\ UNCHANGED <<status, given, a, b, bstate, givenB, writes, lastVersion,
                   lastKey, eqResult, pc, buf, scribbled>>

\* b = a
CopyOp ==
    /\ status = "constructed"
    /\ bstate = "none"
    /\ \E pad \in [PaddingBytes -> PadValues] :
          LET res == AssignByValue(a, pad)
          IN  a' = res[1] /\ b' = res[2]
    /\ bstate' = "copied"
    /\ givenB' = given
    /\ eqResult' = "none"
    /\ UNCHANGED <<status, given, writes, lastVersion, lastKey, payload,
                   pc, buf, scribbled>>

\* b.Version = ~b.Version
WriteCopyVersion ==
    /\ bstate = "copied"
    /\ writes < MaxWrites
    /\ LET x   == UCharMax - givenB.v
           res == StoreToCopy(a, b, Offset("Version") + 1, ToUChar(x))
       IN  /\ a' = res[1]
           /\ b' = res[2]
           /\ givenB' = [givenB EXCEPT !.v = x]
    /\ writes' = writes + 1
    /\ eqResult' = "none"
    /\ UNCHANGED <<status, given, bstate, lastVersion, lastKey, payload,
                   pc, buf, scribbled>>

\* b.Key[i-1] = ~b.Key[i-1]
WriteCopyKey(i) ==
    /\ bstate = "copied"
    /\ writes < MaxWrites
    /\ LET x   == UCharMax - givenB.h[i]
           res == StoreToCopy(a, b, Offset("Key") + i, x)
       IN  /\ a' = res[1]
           /\ b' = res[2]
           /\ givenB' = [givenB EXCEPT !.h[i] = x]
    /\ writes' = writes + 1
    /\ eqResult' = "none"
    /\ UNCHANGED <<status, given, bstate, lastVersion, lastKey, payload,
                   pc, buf, scribbled>>

\* a compared with b
CompareOp ==
    /\ bstate = "copied"
    /\ eqResult' = IF RecordsEqual(a, b) THEN "equal" ELSE "unequal"
    /\ UNCHANGED <<status, given, a, b, bstate, givenB, writes, lastVersion,
                   lastKey, payload, pc, buf, scribbled>>

Next ==
    \/ \E v \in SampleVersions, h \in SampleHashes : ConstructOp(v, h)
    \/ ReadVersionOp
    \/ ReadKeyOp
    \/ ReadPayloadOp
    \/ CopyOp
    \/ WriteCopyVersion
    \/ \E i \in 1 .. Ripemd160Len : WriteCopyKey(i)
    \/ CompareOp

Spec == Init /\ [][Next]_vars

---------------------------------------------------------------------------
(* Concurrent readers: each copies the record a by value into storage of  *)
(* its own, one byte per step, in any interleaving with the others, and    *)
(* may afterwards write to its copy.  Nothing synchronises the readers.    *)

\* reader r loads the next byte of a and stores it in its copy
ReaderStep(r) ==
    /\ status = "constructed"
    /\ pc[r] < SizeofAddress
    /\ LET o   == pc[r] + 1
           res == StoreToCopy(a, buf[r], o, a[o])
       IN  /\ a' = res[1]
           /\ buf' = [buf EXCEPT ![r] = res[2]]
    /\ pc' = [pc EXCEPT ![r] = pc[r] + 1]
    /\ UNCHANGED <<status, given, b, bstate, givenB, writes, lastVersion,
                   lastKey, payload, eqResult, scribbled>>

\* reader r, holding a complete copy, inverts byte o of its copy
ReaderScribble(r, o) ==
    /\ pc[r] = SizeofAddress
    /\ scribbled[r] = 0
    /\ LET res == StoreToCopy(a, buf[r], o, UCharMax - buf[r][o])
       IN  /\ a' = res[1]
           /\ buf' = [buf EXCEPT ![r] = res[2]]
    /\ scribbled' = [scribbled EXCEPT ![r] = o]
    /\ UNCHANGED <<status, given, b, bstate, givenB, writes, lastVersion,
                   lastKey, payload, eqResult, pc>>

NextConc ==
    \/ \E v \in SampleVersions : ConstructOp(v, HashSeq)
    \/ \E r \in Readers : ReaderStep(r)
    \/ \E r \in Readers, o \in 1 .. SizeofAddress : ReaderScribble(r, o)

SpecConc == Init /\ [][NextConc]_vars

---------------------------------------------------------------------------
(* The field values of a record, read through the layout *)

\* record r holds version v and digest h, byte for byte
Holds(r, v, h) ==
    /\ ReadVersion(r) = v
    /\ \A i \in 1 .. 20 : ReadKey(r)[i] = h[i]

\* the digest positions at which a and b were given different bytes
KeyDiff == {i \in 1 .. 20 : given.h[i] # givenB.h[i]}

---------------------------------------------------------------------------
(* C1 - Field preservation (round trip): a record constructed from a      *)
(* version byte v in 0..255 and a 20-byte digest h reads back exactly v    *)
(* as its version and exactly h as its digest, every byte of h at the      *)
(* same index.                                                             *)
C1_FieldPreservation ==
    /\ lastVersion # NoRead => lastVersion = given.v
    /\ lastKey # <<>> =>
          /\ DOMAIN lastKey = 1 .. 20
          /\ \A i \in 1 .. 20 : lastKey[i] = given.h[i]

\* both fields of the record (255, <<1, ..., 20>>) have been read back
C1_Witness ==
    /\ given.v = 255
    /\ lastVersion = 255
    /\ lastKey = [i \in 1 .. 20 |-> i]

(* C2 - Equality is structural: two records are equal if and only if       *)
(* their versions are equal and their digests agree at every one of the    *)
(* 20 positions; records that differ in a single byte are unequal.         *)
C2_EqualityStructural ==
    eqResult # "none" =>
        ((eqResult = "equal") <=> (given.v = givenB.v /\ KeyDiff = {}))

\* two records that differ in the last digest byte alone compared unequal
C2_Witness ==
    /\ eqResult = "unequal"
    /\ given.v = givenB.v
    /\ KeyDiff = {20}

\* two records compared equal after the copy was written twice
C2_WitnessEqual ==
    /\ eqResult = "equal"
    /\ writes = 2

(* C3 - Immutability: once the record is constructed, in every later       *)
(* state its version and digest are the values given at construction;      *)
(* reading a field, comparing and copying change neither.                  *)
C3_Immutable == status = "constructed" => Holds(a, given.v, given.h)

\* the record has been read, copied and compared, and its copy written
C3_Witness ==
    /\ status = "constructed"
    /\ lastVersion # NoRead
    /\ lastKey # <<>>
    /\ payload # <<>>
    /\ bstate = "copied"
    /\ writes > 0
    /\ eqResult # "none"

(* C4 - Copy independence: a write to the version or digest storage of a   *)
(* by-value copy leaves the original's version and digest unchanged.       *)
C4_CopyIndependent ==
    [][(bstate = "copied" /\ b' # b) =>
          (ReadVersion(a') = ReadVersion(a) /\ ReadKey(a') = ReadKey(a))]_vars

\* the copy's version and first digest byte were both overwritten, and the
\* original still holds what it was given
C4_Witness ==
    /\ bstate = "copied"
    /\ writes = 2
    /\ ReadVersion(b) # ReadVersion(a)
    /\ ReadKey(b)[1] # ReadKey(a)[1]
    /\ Holds(a, given.v, given.h)

(* C5 - Size invariant: in every constructed record the version occupies   *)
(* exactly 1 byte (a value in 0..255) and the digest exactly 20 bytes, 21   *)
(* bytes of payload in all; the digest length is the same in every record. *)
RecordSized(r) ==
    /\ ReadVersion(r) \in 0 .. 255
    /\ DOMAIN ReadKey(r) = 1 .. 20
    /\ \A i \in 1 .. 20 : ReadKey(r)[i] \in 0 .. 255

C5_SizeInvariant ==
    /\ Cardinality(FieldBytes("Version")) = 1
    /\ Cardinality(FieldBytes("Key")) = 20
    /\ Cardinality(FieldBytes("Version") \cup FieldBytes("Key")) = 21
    /\ status = "constructed" => RecordSized(a)
    /\ bstate = "copied" => RecordSized(b)

\* a record with the largest version byte and the largest digest bytes, and
\* a written copy of it
C5_Witness ==
    /\ status = "constructed"
    /\ ReadVersion(a) = 255
    /\ ReadKey(a)[20] = 255
    /\ bstate = "copied"
    /\ writes > 0

(* C6 - Construction and field access are total: construction succeeds     *)
(* for every version byte in 0..255 and every 20-byte digest, without      *)
(* validation; reading the version and reading the digest are always       *)
(* possible on a constructed record.                                       *)
C6_Total ==
    /\ status = "none" =>
          \A v \in SampleVersions, h \in SampleHashes : ENABLED ConstructOp(v, h)
    /\ status = "constructed" => (ENABLED ReadVersionOp /\ ENABLED ReadKeyOp)

\* a record with version 255, which no network defines, was constructed and
\* both its fields were read
C6_Witness ==
    /\ status = "constructed"
    /\ given.v = 255
    /\ lastVersion = 255
    /\ lastKey # <<>>

(* C7 - Serialization order: the payload read from a record is exactly 21  *)
(* bytes: the version first, then the 20 digest bytes in index order.      *)
C7_PayloadOrder ==
    payload # <<>> =>
        /\ DOMAIN payload = 1 .. 21
        /\ payload[1] = given.v
        /\ \A i \in 1 .. 20 : payload[1 + i] = given.h[i]

\* the payload of (111, <<1, ..., 20>>) was read
C7_Witness ==
    /\ payload # <<>>
    /\ payload[1] = 111
    /\ payload[2] = 1
    /\ payload[21] = 20

(* C8 - Unsynchronized concurrent reads are safe: in every interleaving    *)
(* of the readers' byte reads and by-value copies, every byte a reader has *)
(* read is the byte given at construction, the record itself is unchanged, *)
(* and a reader that has bytes left to read can take its next step.        *)
ExpectedByte(o) ==
    IF o \in FieldBytes("Version") THEN given.v ELSE given.h[o - Offset("Key")]

C8_ConcurrentReads ==
    status = "constructed" =>
        /\ Holds(a, given.v, given.h)
        /\ \A r \in Readers :
              /\ \A o \in 1 .. pc[r] :
                    o # scribbled[r] => buf[r][o] = ExpectedByte(o)
              /\ pc[r] < SizeofAddress => ENABLED ReaderStep(r)

\* one reader is in the middle of the digest while another, which finished
\* and wrote to its own copy, has changed a byte the first already read
C8_Witness ==
    \E r1, r2 \in Readers :
        /\ r1 # r2
        /\ scribbled[r1] # 0
        /\ scribbled[r2] = 0
        /\ pc[r2] > scribbled[r1]
        /\ pc[r2] < SizeofAddress

(* C9 - The record has exactly the two fields Version and Key and no other *)
(* storage: every byte of a record belongs to one of them, so two records  *)
(* with equal Version and equal Key are the same record.                   *)
C9_TwoFieldsOnly ==
    /\ Fields = <<"Version", "Key">>
    /\ PaddingBytes = {}
    /\ bstate = "copied" =>
          ((ReadVersion(a) = ReadVersion(b) /\ ReadKey(a) = ReadKey(b)) => a = b)

\* a copy that was written twice and again agrees with the original in
\* both fields
C9_Witness ==
    /\ bstate = "copied"
    /\ writes = 2
    /\ ReadVersion(a) = ReadVersion(b)
    /\ ReadKey(a) = ReadKey(b)

===========================================================================
